---- MODULE Spec2Model ----
(***************************************************************************)
(* Model of zebra.py: ZebraPrinterManager, a menu-driven manager of a      *)
(* Zebra label printer.  The profile (settings), the device state          *)
(* (usb_online, printer_verified), the persisted document (config.json)    *)
(* and the host's tools (lsusb, lpstat, lp) are the state; one action per  *)
(* menu operation and per input prompt.                                    *)
(*                                                                         *)
(* Text is modelled by TLA+ strings, so substring tests, joins and         *)
(* decimal formatting are computed character by character.  A length in    *)
(* millimetres is a record [kind, c, raw]: kind "num" is the finite number *)
(* c/100 (two decimals: float(c/100) * 8 is then within 2^-50 of the exact *)
(* product, which is either an integer or at least 1/25 away from one, so  *)
(* int() of the double and of the exact product agree), "inf" and "nan"    *)
(* are the non-finite doubles (c is the sign of an infinity), "str" is a   *)
(* string raw, "none" is None/null and "list" a JSON array.                *)
(***************************************************************************)
EXTENDS Integers, Sequences, FiniteSets, TLC

\* Number of configuration choices (menu options 3 to 8) taken in one run.
MaxEdits == 1

\* Largest length handed to mm_to_dots alone, in hundredths of a millimetre.
MaxCenti == 150

\* zebra.py: DOTS_PER_MM = 8  (203 DPI approximation)
DOTS_PER_MM == 8

---------------------------------------------------------------------------
(* Python's str operations used by the program. *)

\* sub in s
Contains(s, sub) ==
  \E i \in 1..(Len(s) - Len(sub) + 1) : SubSeq(s, i, i + Len(sub) - 1) = sub

\* the number of places of s where sub occurs
Count(s, sub) ==
  Cardinality({i \in 1..(Len(s) - Len(sub) + 1) : SubSeq(s, i, i + Len(sub) - 1) = sub})

StartsWith(s, p) == Len(s) >= Len(p) /\ SubSeq(s, 1, Len(p)) = p

EndsWith(s, p) == Len(s) >= Len(p) /\ SubSeq(s, Len(s) - Len(p) + 1, Len(s)) = p

Digit(d) == SubSeq("0123456789", d + 1, d + 1)

RECURSIVE NatToStr(_)
NatToStr(n) == IF n < 10 THEN Digit(n) ELSE NatToStr(n \div 10) \o Digit(n % 10)

\* str(n) of an int, as an f-string formats it
IntToStr(n) == IF n < 0 THEN "-" \o NatToStr(-n) ELSE NatToStr(n)

\* "\n".join(lines)
RECURSIVE Join(_)
Join(lines) ==
  IF Len(lines) = 0 THEN ""
  ELSE IF Len(lines) = 1 THEN lines[1]
  ELSE lines[1] \o "\n" \o Join(Tail(lines))

\* s.split("\n")
RECURSIVE SplitLines(_)
SplitLines(s) ==
  IF ~Contains(s, "\n") THEN <<s>>
  ELSE LET i == CHOOSE j \in 1..Len(s) :
                  SubSeq(s, j, j) = "\n" /\ \A k \in 1..(j - 1) : SubSeq(s, k, k) # "\n"
       IN  <<SubSeq(s, 1, i - 1)>> \o SplitLines(SubSeq(s, i + 1, Len(s)))

IsDigits(s) == Len(s) >= 1 /\ \A i \in 1..Len(s) : Contains("0123456789", SubSeq(s, i, i))

DigitVal(ch) == CHOOSE d \in 0..9 : Digit(d) = ch

RECURSIVE DigitsVal(_)
DigitsVal(s) ==
  IF Len(s) = 0 THEN 0
  ELSE 10 * DigitsVal(SubSeq(s, 1, Len(s) - 1)) + DigitVal(SubSeq(s, Len(s), Len(s)))

---------------------------------------------------------------------------
(* Values and the casts int(str) and float(x). *)

Num(c) == [kind |-> "num", c |-> c, raw |-> ""]
Inf(sign) == [kind |-> "inf", c |-> sign, raw |-> ""]
NaN == [kind |-> "nan", c |-> 0, raw |-> ""]
Str(raw) == [kind |-> "str", c |-> 0, raw |-> raw]
None == [kind |-> "none", c |-> 0, raw |-> ""]
List == [kind |-> "list", c |-> 0, raw |-> ""]

Ret(v) == [exc |-> "none", val |-> v]
Raise(e) == [exc |-> e, val |-> 0]

Unsigned(s) ==
  IF Len(s) >= 1 /\ SubSeq(s, 1, 1) \in {"-", "+"} THEN SubSeq(s, 2, Len(s)) ELSE s

Sign(s) == IF Len(s) >= 1 /\ SubSeq(s, 1, 1) = "-" THEN -1 ELSE 1

\* int(user_input) of a typed line: an optional sign and decimal digits
int_of_str(s) ==
  IF IsDigits(Unsigned(s)) THEN Ret(Sign(s) * DigitsVal(Unsigned(s)))
  ELSE Raise("ValueError")

\* float(s) of a string: inf, nan, or sign, digits, and at most two decimals
float_of_str(s) ==
  LET u == Unsigned(s)
      dot == IF Contains(u, ".")
             THEN CHOOSE j \in 1..Len(u) : SubSeq(u, j, j) = "."
             ELSE Len(u) + 1
      ip == SubSeq(u, 1, dot - 1)
      fp == SubSeq(u, dot + 1, Len(u))
  IN  IF u \in {"inf", "infinity"} THEN Ret(Inf(Sign(s)))
      ELSE IF u = "nan" THEN Ret(NaN)
      ELSE IF /\ Len(ip) + Len(fp) >= 1
              /\ Len(fp) <= 2
              /\ (Len(ip) = 0 \/ IsDigits(ip))
              /\ (Len(fp) = 0 \/ IsDigits(fp))
           THEN Ret(Num(Sign(s) * (100 * DigitsVal(ip)
                                   + (IF Len(fp) = 1 THEN 10 ELSE 1) * DigitsVal(fp))))
           ELSE Raise("ValueError")

\* float(mm)
float(mm) ==
  CASE mm.kind \in {"num", "inf", "nan"} -> Ret(mm)
    [] mm.kind = "str" -> float_of_str(mm.raw)
    [] OTHER -> Raise("TypeError")

\* n / d truncated toward zero, as int() of a float
Trunc(n, d) == IF n >= 0 THEN n \div d ELSE -((-n) \div d)

\* the product floored instead of truncated
int_of_product_floor(f) ==
  CASE f.kind = "inf" -> Raise("OverflowError")
    [] f.kind = "nan" -> Raise("ValueError")
    [] OTHER -> Ret((f.c * DOTS_PER_MM) \div 100)

\* int(f * DOTS_PER_MM) of a float f
int_of_product(f) ==
  CASE f.kind = "inf" -> Raise("OverflowError")
    [] f.kind = "nan" -> Raise("ValueError")
    [] OTHER -> Ret(Trunc(f.c * DOTS_PER_MM, 100))

\* mm_to_dots: only ValueError is caught
mm_to_dots(mm) ==
  LET f == float(mm) IN
  IF f.exc = "ValueError" THEN Ret(0)
  ELSE IF f.exc # "none" THEN Raise(f.exc)
  ELSE LET i == int_of_product(f.val) IN
       IF i.exc = "ValueError" THEN Ret(0) ELSE i

---------------------------------------------------------------------------
(* The profile and the persisted document. *)

default_settings ==
  [printer_name |-> "ZTC-GK420t",
   text |-> "nicolocarcagni.dev",
   darkness |-> 30,
   media_darkness |-> 15,
   speed |-> 2,
   label_width_mm |-> Num(5000),
   label_height_mm |-> Num(2500),
   font_h_mm |-> Num(400),
   font_w_mm |-> Num(400),
   offset_x_mm |-> Num(200),
   offset_y_mm |-> Num(200),
   print_method |-> "direct_thermal"]

BuiltinKeys == DOMAIN default_settings

MmKeys == {"label_width_mm", "label_height_mm", "offset_x_mm", "offset_y_mm",
           "font_h_mm", "font_w_mm"}

NoObject == [k \in {} |-> 0]

Absent == [kind |-> "absent", obj |-> NoObject]
Invalid == [kind |-> "invalid", obj |-> NoObject]
NonObject == [kind |-> "nonobject", obj |-> NoObject]
Object(o) == [kind |-> "object", obj |-> o]

\* a merge that keeps only the built-in keys
MergeKnownKeys(defaults, loaded) ==
  [k \in DOMAIN defaults |-> IF k \in DOMAIN loaded THEN loaded[k] ELSE defaults[k]]

\* {**default_settings, **loaded}
Merge(defaults, loaded) ==
  [k \in DOMAIN defaults \cup DOMAIN loaded |->
     IF k \in DOMAIN loaded THEN loaded[k] ELSE defaults[k]]

\* load_settings: no file or a JSONDecodeError gives the defaults; a JSON value
\* that is no object makes the ** unpacking raise TypeError, which is not caught
load_settings(doc) ==
  CASE doc.kind = "absent" -> Ret(default_settings)
    [] doc.kind = "invalid" -> Ret(default_settings)
    [] doc.kind = "nonobject" -> Raise("TypeError")
    [] OTHER -> Ret(Merge(default_settings, doc.obj))

\* The persisted documents a run may start from.
ObjectDocs ==
  { NoObject,
    [darkness |-> 31, media_darkness |-> -31, speed |-> 7,
     print_method |-> "thermal_transfer", note |-> "spare roll"],
    [label_width_mm |-> None],
    [printer_name |-> "Zebra2", text |-> "Hello\nWorld", label_height_mm |-> Str("abc"),
     offset_y_mm |-> Num(-149), font_h_mm |-> NaN] }

Docs == {Absent, Invalid, NonObject} \cup {Object(o) : o \in ObjectDocs}

---------------------------------------------------------------------------
(* generate_zpl *)

\* "^MTD": force direct thermal, whatever print_method is
MediaTypeByMethod(s) == IF s.print_method = "direct_thermal" THEN "^MTD" ELSE "^MTT"

MediaTypeDirective(s) == "^MTD"

Header(s, width_dots, height_dots) ==
  << "~SD" \o IntToStr(s.darkness),
     "^XA",
     MediaTypeDirective(s),
     "^PR" \o IntToStr(s.speed),
     "^MD" \o IntToStr(s.media_darkness),
     "^PW" \o IntToStr(width_dots),
     "^LL" \o IntToStr(height_dots),
     "^CI28" >>

TestFrame(width_dots, height_dots) ==
  << "^FO0,0^GB" \o IntToStr(width_dots) \o "," \o IntToStr(height_dots) \o ","
       \o IntToStr(mm_to_dots(Num(100)).val) \o ",B,0^FS",
     "^FO" \o IntToStr(width_dots \div 4) \o "," \o IntToStr(height_dots \div 3)
       \o "^A0N,30,30^FDTEST FRAME^FS" >>

TextField(s, offset_x_dots, offset_y_dots, font_h_dots, font_w_dots) ==
  << "^FO" \o IntToStr(offset_x_dots) \o "," \o IntToStr(offset_y_dots),
     "^A0N," \o IntToStr(font_h_dots) \o "," \o IntToStr(font_w_dots),
     "^FD" \o s.text \o "^FS" >>

\* The six conversions run first, in this order; the first that raises ends the call.
Conversions(s) ==
  << mm_to_dots(s.label_width_mm), mm_to_dots(s.label_height_mm),
     mm_to_dots(s.offset_x_mm), mm_to_dots(s.offset_y_mm),
     mm_to_dots(s.font_h_mm), mm_to_dots(s.font_w_mm) >>

FirstFailure(dots) ==
  LET bad == {i \in 1..Len(dots) : dots[i].exc # "none"}
  IN  IF bad = {} THEN "none"
      ELSE dots[CHOOSE i \in bad : \A j \in bad : i <= j].exc

Assemble(s, test_pattern, dots) ==
  IF FirstFailure(dots) # "none" THEN Raise(FirstFailure(dots))
  ELSE LET width_dots == dots[1].val
           height_dots == dots[2].val
           offset_x_dots == dots[3].val
           offset_y_dots == dots[4].val
           font_h_dots == dots[5].val
           font_w_dots == dots[6].val
       IN  Ret(Join(Header(s, width_dots, height_dots)
                    \o (IF test_pattern
                        THEN TestFrame(width_dots, height_dots)
                        ELSE TextField(s, offset_x_dots, offset_y_dots,
                                       font_h_dots, font_w_dots))
                    \o <<"^XZ">>))

generate_zpl(s, test_pattern) ==
  LET dots == Conversions(s) IN Assemble(s, test_pattern, dots)

---------------------------------------------------------------------------
(* The state probe. *)

\* A tool of the host: not installed, raising when run, or printing stdout.
Missing == [avail |-> FALSE, raises |-> FALSE, stdout |-> ""]
Failing == [avail |-> TRUE, raises |-> TRUE, stdout |-> ""]
Prints(out) == [avail |-> TRUE, raises |-> FALSE, stdout |-> out]

LsusbStates ==
  { Missing, Failing,
    Prints("ID 1d6b:0002 Linux hub"),
    Prints("ID 0a5f:0080 GK420t"),
    Prints("ID 1504:0001 Zebra") }

LpstatStates ==
  { Missing, Failing,
    Prints("printer ZTC-GK420t is idle"),
    Prints("") }

Hosts == [lsusb : LsusbStates, lpstat : LpstatStates]

\* check_cups_status
check_cups_status(lpstat, printer) ==
  IF ~lpstat.avail THEN FALSE
  ELSE IF lpstat.raises THEN FALSE
  ELSE Contains(lpstat.stdout, printer)

\* what lsusb absent leaves in usb_online: True, to avoid blocking
AssumeOffline == FALSE

AssumeOnline == TRUE

\* the vendor test of check_hardware_connection
IsZebra(stdout) == Contains(stdout, "Zebra") \/ Contains(stdout, "0a5f:")

\* check_hardware_connection: the new (usb_online, printer_verified); the return
\* taken when lsusb is missing skips check_cups_status
check_hardware_connection(host, s, verified) ==
  IF ~host.lsusb.avail
  THEN [usb_online |-> AssumeOnline, printer_verified |-> verified]
  ELSE [usb_online |-> IF host.lsusb.raises THEN FALSE ELSE IsZebra(host.lsusb.stdout),
        printer_verified |-> check_cups_status(host.lpstat, s.printer_name)]

---------------------------------------------------------------------------
(* The program's state. *)

VARIABLES
  pc,                \* where the program is: "loop" (top of main_menu's loop),
                     \* "menu" (the option prompt), an input prompt of an option,
                     \* "exited", "crashed" (an exception left main_menu), or
                     \* "convert" (mm_to_dots alone)
  config_file,       \* config.json
  settings,          \* self.settings
  usb_online,        \* self.usb_online
  printer_verified,  \* self.printer_verified
  host,              \* lsusb and lpstat as the last probe found them
  job,               \* what the last print_label did: the stream and lp's outcome
  last_op,           \* the operation that led to this state
  fault,             \* the exception that ended the program, or "none"
  edits,             \* configuration options chosen so far
  conv_in,           \* two lengths handed to mm_to_dots
  conv_out           \* and their dot counts, once converted

vars == <<pc, config_file, settings, usb_online, printer_verified, host, job,
          last_op, fault, edits, conv_in, conv_out>>

NoJob == [generated |-> FALSE, test_pattern |-> FALSE, zpl |-> "", lp |-> "none"]

\* lp: not installed, raising otherwise, accepting the job, or returning an error
LpStates == {"missing", "raises", "ok", "error"}

lp_outcome(lp) ==
  CASE lp = "missing" -> "notfound"
    [] lp = "raises" -> "unexpected"
    [] lp = "ok" -> "sent"
    [] OTHER -> "failed"

\* What the user may type at the prompts.
Texts == {"", "Hi", "^XZ", "^FS^GB9,9,1^FS"}
PrinterNames == {"Zebra2", ""}
FloatEntries == {"1.49", "inf", "abc", ""}
DarknessEntries == {"0", "31", "abc"}
MediaDarknessEntries == {"-30", "-31", "31"}
SpeedEntries == {"6", "7", "1"}
ProportionalAnswers == {"", "y", "n", "N"}

Range(lo, hi) == lo..(hi - 1)
NoRange == {}

\* one pass of get_input's loop on a typed line: the value returned, or the
\* rejection after which the prompt is shown again (default is None at every call)
get_input(user_input, cast_type, valid_range) ==
  LET value == IF cast_type = "int" THEN int_of_str(user_input)
               ELSE float_of_str(user_input)
  IN  IF value.exc # "none" THEN Raise("invalid")
      ELSE IF valid_range # NoRange /\ value.val \notin valid_range THEN Raise("range")
      ELSE value

\* str.lower() of an answer
lower(s) == IF s = "N" THEN "n" ELSE IF s = "Y" THEN "y" ELSE s

\* print_label goes on past the hardware check only when usb_online
PrintProceedsAlways(online) == TRUE

PrintProceeds(online) == online

ConvInputs == {Num(c) : c \in (-MaxCenti)..MaxCenti} \cup {Num(5000)}
NotConverted == <<>>

---------------------------------------------------------------------------
(* __init__: load_settings, then the first probe. *)

Init ==
  \E doc \in Docs, h \in Hosts :
    LET loaded == load_settings(doc)
        d == check_hardware_connection(h, loaded.val, FALSE)
    IN  /\ config_file = doc
        /\ host = h
        /\ job = NoJob
        /\ last_op = "__init__"
        /\ edits = 0
        /\ conv_in = <<>>
        /\ conv_out = NotConverted
        /\ IF loaded.exc # "none"
           THEN /\ pc = "crashed"
                /\ fault = loaded.exc
                /\ settings = NoObject
                /\ usb_online = FALSE
                /\ printer_verified = FALSE
           ELSE /\ pc = "loop"
                /\ fault = "none"
                /\ settings = loaded.val
                /\ usb_online = d.usb_online
                /\ printer_verified = d.printer_verified

---------------------------------------------------------------------------
(* main_menu *)

\* the probe at the top of each iteration
Refresh ==
  /\ pc = "loop"
  /\ \E h \in Hosts :
       \E d \in {check_hardware_connection(h, settings, printer_verified)} :
         /\ host' = h
         /\ usb_online' = d.usb_online
         /\ printer_verified' = d.printer_verified
  /\ pc' = "menu"
  /\ job' = NoJob
  /\ last_op' = "refresh"
  /\ UNCHANGED <<config_file, settings, fault, edits, conv_in, conv_out>>

\* options 1 and 2
print_label(test_pattern) ==
  /\ pc = "menu"
  /\ \E z \in {generate_zpl(settings, test_pattern)}, h \in Hosts :
       \E d \in {check_hardware_connection(h, settings, printer_verified)} :
         /\ host' = h
         /\ usb_online' = d.usb_online
         /\ printer_verified' = d.printer_verified
         /\ IF ~PrintProceeds(d.usb_online)
            THEN /\ job' = NoJob
                 /\ pc' = "loop"
                 /\ fault' = fault
            ELSE IF z.exc # "none"
            THEN /\ job' = [NoJob EXCEPT !.generated = TRUE, !.test_pattern = test_pattern]
                 /\ pc' = "crashed"
                 /\ fault' = z.exc
            ELSE /\ \E lp \in LpStates :
                      job' = [generated |-> TRUE, test_pattern |-> test_pattern,
                              zpl |-> z.val, lp |-> lp_outcome(lp)]
                 /\ pc' = "loop"
                 /\ fault' = fault
  /\ last_op' = "print_label"
  /\ UNCHANGED <<config_file, settings, edits, conv_in, conv_out>>

\* an option that opens prompts, or sets a field at once
Chosen(op, next_pc) ==
  /\ pc = "menu"
  /\ edits < MaxEdits
  /\ edits' = edits + 1
  /\ pc' = next_pc
  /\ last_op' = op
  /\ UNCHANGED <<config_file, usb_online, host, job, fault, conv_in, conv_out>>

\* a prompt of get_input for field key: an accepted line sets the field and moves
\* on, a rejected line shows the prompt again
Prompt(at, key, entries, cast_type, valid_range, next_pc) ==
  /\ pc = at
  /\ \E user_input \in entries :
       LET r == get_input(user_input, cast_type, valid_range)
       IN  IF r.exc = "none"
           THEN /\ settings' = [settings EXCEPT ![key] = r.val]
                /\ pc' = next_pc
                /\ last_op' = "accepted"
           ELSE /\ settings' = settings
                /\ pc' = pc
                /\ last_op' = "rejected"
  /\ UNCHANGED <<config_file, usb_online, printer_verified, host, job, fault, edits,
                 conv_in, conv_out>>

\* option 3
SetText ==
  /\ Chosen("set_text", "loop")
  /\ \E t \in Texts : settings' = [settings EXCEPT !.text = t]
  /\ UNCHANGED printer_verified

\* option 4
SetDimensions == Chosen("set_dimensions", "width") /\ UNCHANGED <<settings, printer_verified>>
EnterWidth == Prompt("width", "label_width_mm", FloatEntries, "float", NoRange, "height")
EnterHeight == Prompt("height", "label_height_mm", FloatEntries, "float", NoRange, "loop")

\* option 5
SetOffsets == Chosen("set_offsets", "offset_x") /\ UNCHANGED <<settings, printer_verified>>
EnterOffsetX == Prompt("offset_x", "offset_x_mm", FloatEntries, "float", NoRange, "offset_y")
EnterOffsetY == Prompt("offset_y", "offset_y_mm", FloatEntries, "float", NoRange, "loop")

\* option 6
Calibrate == Chosen("calibrate", "darkness") /\ UNCHANGED <<settings, printer_verified>>
EnterDarkness ==
  Prompt("darkness", "darkness", DarknessEntries, "int", Range(0, 31), "media_darkness")
EnterMediaDarkness ==
  Prompt("media_darkness", "media_darkness", MediaDarknessEntries, "int", Range(-30, 31), "speed")
EnterSpeed == Prompt("speed", "speed", SpeedEntries, "int", Range(2, 7), "loop")

\* option 7, configure_fonts: max_h = label_height_mm - 2 raises TypeError on a
\* height that is no number
configure_fonts ==
  /\ pc = "menu"
  /\ edits < MaxEdits
  /\ edits' = edits + 1
  /\ last_op' = "configure_fonts"
  /\ IF settings.label_height_mm.kind \in {"num", "inf", "nan"}
     THEN pc' = "font_h" /\ fault' = fault
     ELSE pc' = "crashed" /\ fault' = "TypeError"
  /\ UNCHANGED <<config_file, settings, usb_online, printer_verified, host, job,
                 conv_in, conv_out>>
EnterFontHeight == Prompt("font_h", "font_h_mm", FloatEntries, "float", NoRange, "font_prop")
AnswerProportional ==
  /\ pc = "font_prop"
  /\ \E prop \in ProportionalAnswers :
       IF lower(prop) # "n"
       THEN /\ settings' = [settings EXCEPT !.font_w_mm = settings.font_h_mm]
            /\ pc' = "loop"
       ELSE /\ settings' = settings
            /\ pc' = "font_w"
  /\ last_op' = "proportional"
  /\ UNCHANGED <<config_file, usb_online, printer_verified, host, job, fault, edits,
                 conv_in, conv_out>>
EnterFontWidth == Prompt("font_w", "font_w_mm", FloatEntries, "float", NoRange, "loop")

\* option 8: the new name, then check_cups_status alone
SetPrinterName ==
  /\ pc = "menu"
  /\ edits < MaxEdits
  /\ edits' = edits + 1
  /\ \E name \in PrinterNames, l \in LpstatStates :
       /\ settings' = [settings EXCEPT !.printer_name = name]
       /\ host' = [host EXCEPT !.lpstat = l]
       /\ printer_verified' = check_cups_status(l, name)
  /\ pc' = "loop"
  /\ last_op' = "set_printer_name"
  /\ UNCHANGED <<config_file, usb_online, job, fault, conv_in, conv_out>>

\* option 9: cancel -a changes nothing of the program's state
clear_print_queue ==
  /\ pc = "menu"
  /\ pc' = "loop"
  /\ last_op' = "clear_print_queue"
  /\ UNCHANGED <<config_file, settings, usb_online, printer_verified, host, job, fault,
                 edits, conv_in, conv_out>>

\* any other line
InvalidSelection ==
  /\ pc = "menu"
  /\ pc' = "loop"
  /\ last_op' = "invalid_selection"
  /\ UNCHANGED <<config_file, settings, usb_online, printer_verified, host, job, fault,
                 edits, conv_in, conv_out>>

\* save_settings: json.dump of the whole profile; an IOError is reported, not raised
save_settings(s, doc, written) == IF written THEN Object(s) ELSE doc

\* option 0
SaveAndExit ==
  /\ pc = "menu"
  /\ \E written \in BOOLEAN :
       /\ config_file' = save_settings(settings, config_file, written)
       /\ last_op' = IF written THEN "saved" ELSE "save_failed"
  /\ pc' = "exited"
  /\ UNCHANGED <<settings, usb_online, printer_verified, host, job, fault, edits,
                 conv_in, conv_out>>

Next ==
  \/ Refresh
  \/ print_label(FALSE)
  \/ print_label(TRUE)
  \/ SetText
  \/ SetDimensions \/ EnterWidth \/ EnterHeight
  \/ SetOffsets \/ EnterOffsetX \/ EnterOffsetY
  \/ Calibrate \/ EnterDarkness \/ EnterMediaDarkness \/ EnterSpeed
  \/ configure_fonts \/ EnterFontHeight \/ AnswerProportional \/ EnterFontWidth
  \/ SetPrinterName
  \/ clear_print_queue
  \/ InvalidSelection
  \/ SaveAndExit

Spec == Init /\ [][Next]_vars

---------------------------------------------------------------------------
(* mm_to_dots alone, applied to pairs of numeric lengths. *)

InitConvert ==
  /\ pc = "convert"
  /\ config_file = Absent
  /\ settings = default_settings
  /\ usb_online = FALSE
  /\ printer_verified = FALSE
  /\ host = [lsusb |-> Missing, lpstat |-> Missing]
  /\ job = NoJob
  /\ last_op = "none"
  /\ fault = "none"
  /\ edits = 0
  /\ conv_in \in ConvInputs \X ConvInputs
  /\ conv_out = NotConverted

Convert ==
  /\ pc = "convert"
  /\ conv_out = NotConverted
  /\ conv_out' = <<mm_to_dots(conv_in[1]), mm_to_dots(conv_in[2])>>
  /\ UNCHANGED <<pc, config_file, settings, usb_online, printer_verified, host, job,
                 last_op, fault, edits, conv_in>>

SpecConvert == InitConvert /\ [][Convert]_vars

---------------------------------------------------------------------------
(* Properties. *)

\* a probe (check_hardware_connection) was the last thing to touch the device state
ProbeRan == last_op \in {"__init__", "refresh", "print_label"} /\ settings # NoObject

\* the last print_label built a stream
Printed == last_op = "print_label" /\ job.generated /\ pc # "crashed"

Abs(n) == IF n < 0 THEN -n ELSE n

\* C1: a print action whose transport check leaves usb_online false neither calls
\* generate_zpl nor invokes lp, and returns to the menu.
C1_OfflineBlocksPrint ==
  (last_op = "print_label" /\ ~usb_online) =>
    (~job.generated /\ job.zpl = "" /\ job.lp = "none" /\ pc = "loop")

C1_Witness ==
  /\ last_op = "print_label"
  /\ ~usb_online
  /\ host.lsusb = Failing
  /\ edits = 1
  /\ job = NoJob

\* C2: after every probe printer_verified is false when lpstat is unavailable and
\* otherwise true iff lpstat's output lists the configured printer_name, whatever
\* lsusb is or says.
C2_SpoolerIndependent ==
  ProbeRan =>
    (printer_verified = (/\ host.lpstat.avail
                         /\ ~host.lpstat.raises
                         /\ Contains(host.lpstat.stdout, settings.printer_name)))

\* C3: after every probe usb_online is true when lsusb is unavailable, false when
\* running it raises, and otherwise true iff its output contains "Zebra" or "0a5f:";
\* it is a function of the tool alone, not of the earlier usb_online.
C3_TransportCheck ==
  ProbeRan =>
    (usb_online = (IF ~host.lsusb.avail THEN TRUE
                   ELSE IF host.lsusb.raises THEN FALSE
                   ELSE \/ Contains(host.lsusb.stdout, "Zebra")
                        \/ Contains(host.lsusb.stdout, "0a5f:")))

C3_Witness ==
  /\ last_op = "refresh"
  /\ host.lsusb = Missing
  /\ usb_online
  /\ edits = 1

\* C4: the stream is, line by line: ~SD darkness, ^XA, ^MTD (whatever print_method
\* is), ^PR speed, ^MD media_darkness, ^PW mm_to_dots(width), ^LL mm_to_dots(height),
\* ^CI28, the content block, and ^XZ as the last line.
C4_DirectiveOrder ==
  Printed =>
    LET L == SplitLines(job.zpl)
        n == Len(L)
    IN  /\ n >= 10
        /\ L[1] = "~SD" \o IntToStr(settings.darkness)
        /\ L[2] = "^XA"
        /\ L[3] = "^MTD"
        /\ L[4] = "^PR" \o IntToStr(settings.speed)
        /\ L[5] = "^MD" \o IntToStr(settings.media_darkness)
        /\ L[6] = "^PW" \o IntToStr(mm_to_dots(settings.label_width_mm).val)
        /\ L[7] = "^LL" \o IntToStr(mm_to_dots(settings.label_height_mm).val)
        /\ L[8] = "^CI28"
        /\ StartsWith(L[9], "^FO")
        /\ EndsWith(L[n - 1], "^FS")
        /\ L[n] = "^XZ"
        /\ (settings = default_settings /\ ~job.test_pattern =>
              job.zpl = "~SD30\n^XA\n^MTD\n^PR2\n^MD15\n^PW400\n^LL200\n^CI28\n"
                        \o "^FO16,16\n^A0N,32,32\n^FDnicolocarcagni.dev^FS\n^XZ")

C4_Witness ==
  /\ Printed
  /\ settings.print_method = "thermal_transfer"
  /\ settings.darkness = 31
  /\ job.test_pattern
  /\ job.lp = "sent"

\* C5: every stream starts with the darkness directive, ends with the end-of-format
\* marker, and holds exactly one ^XA and exactly one ^XZ.
C5_OneMarkerPair ==
  Printed =>
    /\ StartsWith(job.zpl, "~SD")
    /\ EndsWith(job.zpl, "^XZ")
    /\ Count(job.zpl, "^XA") = 1
    /\ Count(job.zpl, "^XZ") = 1

\* C6: a test-pattern stream holds exactly one graphic box, at (0,0), of the label's
\* size in dots and 8 dots thick, and exactly one 30x30 diagnostic text field at
\* (width_dots // 4, height_dots // 3), and nothing of the text, offsets or font
\* size; any other stream holds no graphic box and exactly one field-data element,
\* the configured text, at the configured offsets and font size.
C6_ContentVariants ==
  Printed =>
    LET w == mm_to_dots(settings.label_width_mm).val
        h == mm_to_dots(settings.label_height_mm).val
    IN  IF job.test_pattern
        THEN /\ Count(job.zpl, "^GB") = 1
             /\ Contains(job.zpl, "\n^FO0,0^GB" \o IntToStr(w) \o "," \o IntToStr(h)
                                    \o ",8,B,0^FS\n")
             /\ Count(job.zpl, "^A0N,30,30") = 1
             /\ Contains(job.zpl, "\n^FO" \o IntToStr(w \div 4) \o "," \o IntToStr(h \div 3)
                                    \o "^A0N,30,30^FDTEST FRAME^FS\n")
             /\ job.zpl = generate_zpl([settings EXCEPT !.text = "",
                                                        !.offset_x_mm = Num(0),
                                                        !.offset_y_mm = Num(0),
                                                        !.font_h_mm = Num(0),
                                                        !.font_w_mm = Num(0)], TRUE).val
        ELSE /\ Count(job.zpl, "^GB") = 0
             /\ Count(job.zpl, "^FD") = 1
             /\ Contains(job.zpl,
                  "\n^FO" \o IntToStr(mm_to_dots(settings.offset_x_mm).val)
                    \o "," \o IntToStr(mm_to_dots(settings.offset_y_mm).val)
                    \o "\n^A0N," \o IntToStr(mm_to_dots(settings.font_h_mm).val)
                    \o "," \o IntToStr(mm_to_dots(settings.font_w_mm).val)
                    \o "\n^FD" \o settings.text \o "^FS\n")

\* C7: for a numeric length mm_to_dots returns length x 8 truncated toward zero:
\* 0 for 0, 400 for 50.0, 11 for 1.49; so it is monotonic non-decreasing.
C7_Truncates ==
  conv_out # NotConverted =>
    /\ \A i \in 1..2 :
         LET c == conv_in[i].c
             r == conv_out[i]
         IN  /\ r.exc = "none"
             /\ r.val * c >= 0
             /\ Abs(r.val) * 100 <= Abs(c) * 8
             /\ Abs(c) * 8 < (Abs(r.val) + 1) * 100
             /\ (c = 0 => r.val = 0)
             /\ (c = 5000 => r.val = 400)
             /\ (c = 149 => r.val = 11)
    /\ (conv_in[1].c <= conv_in[2].c => conv_out[1].val <= conv_out[2].val)

C7_Witness ==
  /\ conv_out # NotConverted
  /\ conv_in = <<Num(-149), Num(149)>>
  /\ conv_out = <<Ret(-11), Ret(11)>>

NonNumeric(v) ==
  \/ v.kind \in {"none", "list", "inf", "nan"}
  \/ v.kind = "str" /\ float_of_str(v.raw).exc # "none"

\* C8: mm_to_dots never raises and gives 0 for what is no number, so generate_zpl
\* completes for every profile load_settings can produce.
C8_NeverFails ==
  settings # NoObject =>
    /\ \A k \in MmKeys :
         /\ mm_to_dots(settings[k]).exc = "none"
         /\ (NonNumeric(settings[k]) => mm_to_dots(settings[k]).val = 0)
    /\ \A t \in BOOLEAN : generate_zpl(settings, t).exc = "none"

\* C9: in every state of the profile darkness is in [0,30], media_darkness in
\* [-30,30] and speed in [2,6].
C9_RangesHold ==
  settings # NoObject =>
    /\ settings.darkness \in 0..30
    /\ settings.media_darkness \in (-30)..30
    /\ settings.speed \in 2..6

\* C10 as stated: the profile has exactly the built-in keys, and so has the document
\* save_settings writes.
C10_OnlyBuiltinKeys ==
  /\ settings # NoObject => DOMAIN settings = BuiltinKeys
  /\ last_op = "saved" => DOMAIN config_file.obj = BuiltinKeys

\* C10 as amended: loading a document that is a JSON object gives the built-in keys
\* and every key of the document; a key of the document has the document's value, a
\* built-in key absent from it its default; a key of the document that is no built-in
\* key stays in the profile and save_settings writes it back.
C10_MergeKeepsDocumentKeys ==
  /\ (last_op = "__init__" /\ config_file.kind = "object") =>
       /\ fault = "none"
       /\ DOMAIN settings = BuiltinKeys \cup DOMAIN config_file.obj
       /\ \A k \in DOMAIN config_file.obj : settings[k] = config_file.obj[k]
       /\ \A k \in BuiltinKeys \ DOMAIN config_file.obj : settings[k] = default_settings[k]
  /\ (settings # NoObject /\ config_file.kind = "object") =>
       \A k \in DOMAIN config_file.obj \ BuiltinKeys :
         k \in DOMAIN settings /\ settings[k] = config_file.obj[k]
  /\ last_op = "saved" => config_file = Object(settings)

C10_Witness ==
  /\ last_op = "saved"
  /\ edits = 1
  /\ "note" \in DOMAIN config_file.obj
  /\ config_file.obj.note = "spare roll"
  /\ config_file.obj.darkness = 0

====
